---- MODULE Spec2Model ----
(***************************************************************************)
(* net-pathfinder: Point / Node / Path / Net and their builders.           *)
(*                                                                         *)
(* Points are records [id |-> i]; Point::is compares identifiers only.     *)
(* Result values are records: Ok(v) = [kind |-> "Ok", value |-> v],        *)
(* Err(e) = [kind |-> "Err", err |-> e].  A panic!(err) is the outcome     *)
(* [kind |-> "Panic", err |-> e] and unwinds every caller.                 *)
(***************************************************************************)
EXTENDS Integers, Sequences, FiniteSets, TLC

\* net: a Net; from, to: the arguments of the find_paths call made on it (to is
\* None before the call); result: what the call returned.
\* node_builder: a NodeBuilder; node_added: every connection target handed to it
\* so far, in call order; node_point: the point last handed to point(), if any;
\* node_last: its last call; node_result: what build() returned.
\* path_builder: a PathBuilder; path_supplied: every point handed to it so far,
\* in call order; path_last: its last call; path_result: what build() returned.
VARIABLES net, from, to, result,
          node_builder, node_added, node_point, node_last, node_result,
          path_builder, path_supplied, path_last, path_result

vars == <<net, from, to, result,
          node_builder, node_added, node_point, node_last, node_result,
          path_builder, path_supplied, path_last, path_result>>

net_vars == <<net, from, to, result>>
node_vars == <<node_builder, node_added, node_point, node_last, node_result>>
path_vars == <<path_builder, path_supplied, path_last, path_result>>

(***************************************************************************)
(* Bounds                                                                  *)
(***************************************************************************)
\* number of Nodes a Net holds at most
MaxNodes == 3
\* number of connection targets handed to one NodeBuilder, over all its calls
MaxAdded == 4
\* number of points handed to one PathBuilder, over all its calls
MaxSupplied == 4
\* length of the list handed to NodeBuilder::connected_points / PathBuilder::points
MaxList == 2

\* the point identifiers of the model: the four of the Net tests
Ids == {"A", "B", "C", "D"}

Points == { [id |-> i] : i \in Ids }

\* the identifiers of the Nets that are enumerated without restriction
FewIds == {"A", "B", "C"}

FewPoints == { [id |-> i] : i \in FewIds }

(***************************************************************************)
(* Option / Result                                                         *)
(***************************************************************************)
None == [some |-> FALSE]
Some(v) == [some |-> TRUE, value |-> v]

Ok(v) == [kind |-> "Ok", value |-> v]
Err(e) == [kind |-> "Err", err |-> e]
Panic(e) == [kind |-> "Panic", err |-> e]

\* NetErrors
PointNotFound(point_id) == [error |-> "PointNotFound", point_id |-> point_id]
NoPathFound == [error |-> "NoPathFound"]
PathCannotBeBuilt(path_error) == [error |-> "PathCannotBeBuilt", path_error |-> path_error]

\* the builders' error messages
MissingPointMessage == "Should specify a point"
SelfConnectionMessage == "Point cannot be connected to itself"
EmptyPathMessage == "Should set at least one point for the path"

(***************************************************************************)
(* Point                                                                   *)
(***************************************************************************)
id(point) == point.id

is(point, other_point) == id(point) = id(other_point)

\* Identifier::to_string of a String identifier
to_string(identifier) == identifier

(***************************************************************************)
(* Path and PathBuilder                                                    *)
(***************************************************************************)
Path(points) == [points |-> points]

\* mutant: the scan starts at the second point of the path
do_not_contains_skipping_first(path, point_to_check) ==
    ~ \E i \in 2..Len(path.points) : is(path.points[i], point_to_check)

do_not_contains(path, point_to_check) ==
    ~ \E i \in 1..Len(path.points) : is(path.points[i], point_to_check)

\* mutant: a path of a single point never counts as ending with the point
ends_with_longer_path(path, point) ==
    IF Len(path.points) <= 1
    THEN FALSE
    ELSE is(path.points[Len(path.points)], point)

ends_with(path, point) ==
    IF Len(path.points) = 0
    THEN FALSE
    ELSE is(path.points[Len(path.points)], point)

\* a copy of the path with the point appended
with_point_at_the_end(path, point) == Path(Append(path.points, point))

PathBuilder_new == [points |-> None]

PathBuilder_points(builder, points) ==
    IF builder.points.some
    THEN [builder EXCEPT !.points = Some(points)]
    ELSE [builder EXCEPT !.points = Some(points)]

PathBuilder_point(builder, point) ==
    IF builder.points.some
    THEN [builder EXCEPT !.points = Some(Append(builder.points.value, point))]
    ELSE [builder EXCEPT !.points = Some(<<point>>)]

PathBuilder_build(builder) ==
    IF builder.points.some
    THEN Ok(Path(builder.points.value))
    ELSE Err(EmptyPathMessage)

(***************************************************************************)
(* Node                                                                    *)
(***************************************************************************)
Connection(point) == [to |-> point]

Node(point, connections) == [point |-> point, connections |-> connections]

RECURSIVE filter_map_to(_, _)
\* connections.iter().filter(path.do_not_contains(&c.to)).map(|c| &c.to)
filter_map_to(connections, path) ==
    IF connections = <<>>
    THEN <<>>
    ELSE LET rest == filter_map_to(Tail(connections), path)
         IN  IF do_not_contains(path, Head(connections).to)
             THEN <<Head(connections).to>> \o rest
             ELSE rest

connected_points_not_in_path(node, path) ==
    LET points == filter_map_to(node.connections, path)
    IN  IF points = <<>> THEN None ELSE Some(points)

(***************************************************************************)
(* Net                                                                     *)
(***************************************************************************)
Net(nodes) == [nodes |-> nodes]

find_node_or_throws(n, point) ==
    LET found == { i \in 1..Len(n.nodes) : is(n.nodes[i].point, point) }
    IN  IF found = {}
        THEN Err(PointNotFound(to_string(id(point))))
        ELSE Ok(n.nodes[CHOOSE i \in found : \A j \in found : i <= j])

find_node_or_panic(n, point) ==
    LET node == find_node_or_throws(n, point)
    IN  IF node.kind = "Ok" THEN node ELSE Panic(node.err)

\* Searched(r, calls, depth): outcome r of a search that made `calls`
\* invocations of find_paths_not_crossing_previous_path, nested `depth` deep
Searched(r, calls, depth) == [outcome |-> r, calls |-> calls, depth |-> depth]

Max(a, b) == IF a >= b THEN a ELSE b

RECURSIVE find_paths_not_crossing_previous_path(_, _, _, _)
RECURSIVE push_all_paths_following(_, _, _, _, _)
RECURSIVE for_each_followable(_, _, _, _, _)

\* the accumulator `paths` of one level: the Vec being filled, the panic that
\* unwinds the level (if any), and the calls made below the level
panic_if_error_is_not_path_not_found(acc, err) ==
    IF err.error = "NoPathFound"
    THEN acc
    ELSE [acc EXCEPT !.panic = Some(err)]

\* mutant: the paths found replace the ones collected so far
push_all_paths_following_replacing(n, acc, starting_point, destination_point, previous_path) ==
    LET origin_node == find_node_or_panic(n, starting_point)
    IN  IF origin_node.kind = "Panic"
        THEN [acc EXCEPT !.panic = Some(origin_node.err)]
        ELSE LET trying_path == with_point_at_the_end(previous_path, starting_point)
                 path_search == find_paths_not_crossing_previous_path(
                                    n, origin_node.value, destination_point, trying_path)
                 counted == [acc EXCEPT !.calls = acc.calls + path_search.calls,
                                        !.depth = Max(acc.depth, path_search.depth)]
             IN  CASE path_search.outcome.kind = "Ok" ->
                        [counted EXCEPT !.paths = path_search.outcome.value]
                   [] path_search.outcome.kind = "Err" ->
                        panic_if_error_is_not_path_not_found(counted, path_search.outcome.err)
                   [] path_search.outcome.kind = "Panic" ->
                        [counted EXCEPT !.panic = Some(path_search.outcome.err)]

\* mutant: the paths found are put in front of the ones collected so far
push_all_paths_following_prepending(n, acc, starting_point, destination_point, previous_path) ==
    LET origin_node == find_node_or_panic(n, starting_point)
    IN  IF origin_node.kind = "Panic"
        THEN [acc EXCEPT !.panic = Some(origin_node.err)]
        ELSE LET trying_path == with_point_at_the_end(previous_path, starting_point)
                 path_search == find_paths_not_crossing_previous_path(
                                    n, origin_node.value, destination_point, trying_path)
                 counted == [acc EXCEPT !.calls = acc.calls + path_search.calls,
                                        !.depth = Max(acc.depth, path_search.depth)]
             IN  CASE path_search.outcome.kind = "Ok" ->
                        [counted EXCEPT !.paths = path_search.outcome.value \o counted.paths]
                   [] path_search.outcome.kind = "Err" ->
                        panic_if_error_is_not_path_not_found(counted, path_search.outcome.err)
                   [] path_search.outcome.kind = "Panic" ->
                        [counted EXCEPT !.panic = Some(path_search.outcome.err)]

\* mutant: a starting point without a Node is skipped as a dead end
push_all_paths_following_skipping_missing(n, acc, starting_point, destination_point, previous_path) ==
    LET origin_node == find_node_or_throws(n, starting_point)
    IN  IF origin_node.kind = "Err"
        THEN acc
        ELSE LET trying_path == with_point_at_the_end(previous_path, starting_point)
                 path_search == find_paths_not_crossing_previous_path(
                                    n, origin_node.value, destination_point, trying_path)
                 counted == [acc EXCEPT !.calls = acc.calls + path_search.calls,
                                        !.depth = Max(acc.depth, path_search.depth)]
             IN  CASE path_search.outcome.kind = "Ok" ->
                        [counted EXCEPT !.paths = counted.paths \o path_search.outcome.value]
                   [] path_search.outcome.kind = "Err" ->
                        panic_if_error_is_not_path_not_found(counted, path_search.outcome.err)
                   [] path_search.outcome.kind = "Panic" ->
                        [counted EXCEPT !.panic = Some(path_search.outcome.err)]

push_all_paths_following(n, acc, starting_point, destination_point, previous_path) ==
    LET origin_node == find_node_or_panic(n, starting_point)
    IN  IF origin_node.kind = "Panic"
        THEN [acc EXCEPT !.panic = Some(origin_node.err)]
        ELSE LET trying_path == with_point_at_the_end(previous_path, starting_point)
                 path_search == find_paths_not_crossing_previous_path(
                                    n, origin_node.value, destination_point, trying_path)
                 counted == [acc EXCEPT !.calls = acc.calls + path_search.calls,
                                        !.depth = Max(acc.depth, path_search.depth)]
             IN  CASE path_search.outcome.kind = "Ok" ->
                        [counted EXCEPT !.paths = counted.paths \o path_search.outcome.value]
                   [] path_search.outcome.kind = "Err" ->
                        panic_if_error_is_not_path_not_found(counted, path_search.outcome.err)
                   [] path_search.outcome.kind = "Panic" ->
                        [counted EXCEPT !.panic = Some(path_search.outcome.err)]

\* followable_points.into_iter().for_each(|point| push_all_paths_following(..))
for_each_followable(n, acc, followable_points, destination_point, previous_path) ==
    IF followable_points = <<>> \/ acc.panic.some
    THEN acc
    ELSE for_each_followable(
             n,
             push_all_paths_following(n, acc, Head(followable_points),
                                      destination_point, previous_path),
             Tail(followable_points), destination_point, previous_path)

\* mutant: the level returns Ok(paths) without looking whether paths is empty
find_paths_not_crossing_previous_path_unchecked(n, from_node, destination, previous_path) ==
    IF ends_with(previous_path, destination)
    THEN Searched(Ok(<<previous_path>>), 1, 1)
    ELSE LET followable == connected_points_not_in_path(from_node, previous_path)
         IN  IF ~ followable.some
             THEN Searched(Err(NoPathFound), 1, 1)
             ELSE LET acc == for_each_followable(
                                 n, [paths |-> <<>>, panic |-> None, calls |-> 0, depth |-> 0],
                                 followable.value, destination, previous_path)
                  IN  IF acc.panic.some
                      THEN Searched(Panic(acc.panic.value), 1 + acc.calls, 1 + acc.depth)
                      ELSE Searched(Ok(acc.paths), 1 + acc.calls, 1 + acc.depth)

find_paths_not_crossing_previous_path(n, from_node, destination, previous_path) ==
    IF ends_with(previous_path, destination)
    THEN Searched(Ok(<<previous_path>>), 1, 1)
    ELSE LET followable == connected_points_not_in_path(from_node, previous_path)
         IN  IF ~ followable.some
             THEN Searched(Err(NoPathFound), 1, 1)
             ELSE LET acc == for_each_followable(
                                 n, [paths |-> <<>>, panic |-> None, calls |-> 0, depth |-> 0],
                                 followable.value, destination, previous_path)
                  IN  IF acc.panic.some
                      THEN Searched(Panic(acc.panic.value), 1 + acc.calls, 1 + acc.depth)
                      ELSE IF acc.paths = <<>>
                           THEN Searched(Err(NoPathFound), 1 + acc.calls, 1 + acc.depth)
                           ELSE Searched(Ok(acc.paths), 1 + acc.calls, 1 + acc.depth)

\* mutant: the destination is looked up before the origin
find_paths_checking_to_first(n, from_point, to_point) ==
    LET node_to == find_node_or_throws(n, to_point)
        node_from == find_node_or_throws(n, from_point)
    IN  IF node_to.kind = "Err"
        THEN Searched(node_to, 0, 0)
        ELSE IF node_from.kind = "Err"
        THEN Searched(node_from, 0, 0)
        ELSE LET beginning_path == PathBuilder_build(PathBuilder_point(PathBuilder_new, from_point))
             IN  IF beginning_path.kind = "Ok"
                 THEN find_paths_not_crossing_previous_path(
                          n, node_from.value, to_point, beginning_path.value)
                 ELSE Searched(Err(PathCannotBeBuilt(beginning_path.err)), 0, 0)

find_paths(n, from_point, to_point) ==
    LET node_from == find_node_or_throws(n, from_point)
    IN  IF node_from.kind = "Err"
        THEN Searched(node_from, 0, 0)
        ELSE LET beginning_path == PathBuilder_build(PathBuilder_point(PathBuilder_new, from_point))
             IN  IF beginning_path.kind = "Ok"
                 THEN find_paths_not_crossing_previous_path(
                          n, node_from.value, to_point, beginning_path.value)
                 ELSE Searched(Err(PathCannotBeBuilt(beginning_path.err)), 0, 0)

(***************************************************************************)
(* The Nets of the model.  Every Node is one that NodeBuilder::build       *)
(* returns: no connection to its own point, one connection per target.     *)
(* AnyNets: up to MaxNodes Nodes over FewIds in any order; several Nodes   *)
(* may share a point and a connection may name a point that has no Node.   *)
(* MeshNets: one Node for each of the four identifiers, connected in every *)
(* possible way (the Nets of the four-point tests are among them); they    *)
(* are closed under renaming the identifiers, so they are searched from A. *)
(***************************************************************************)
SeqsUpTo(S, n) == UNION { [1..k -> S] : k \in 0..n }

ConnectionLists(point, targets) ==
    { c \in SeqsUpTo({ Connection(p) : p \in targets \ {point} }, Cardinality(targets) - 1) :
        \A i, j \in 1..Len(c) : i # j => c[i] # c[j] }

Nodes(points) == UNION { { Node(p, c) : c \in ConnectionLists(p, points) } : p \in points }

AnyNets == { Net(nodes) : nodes \in SeqsUpTo(Nodes(FewPoints), MaxNodes) }

MeshNets ==
    { Net(<<Node([id |-> "A"], a), Node([id |-> "B"], b),
            Node([id |-> "C"], c), Node([id |-> "D"], d)>>) :
        a \in ConnectionLists([id |-> "A"], Points),
        b \in ConnectionLists([id |-> "B"], Points),
        c \in ConnectionLists([id |-> "C"], Points),
        d \in ConnectionLists([id |-> "D"], Points) }

NotCalled == [kind |-> "NotCalled"]

NetInit ==
    /\ \/ net \in AnyNets /\ from \in Points
       \/ net \in MeshNets /\ from = [id |-> "A"]
    /\ to = None
    /\ result = NotCalled

\* net.find_paths(&from, &to_point)
FindPaths(to_point) ==
    /\ result = NotCalled
    /\ to' = to_point
    /\ result' = find_paths(net, from, to_point)
    /\ UNCHANGED <<net, from, node_vars, path_vars>>

(***************************************************************************)
(* NodeBuilder                                                             *)
(***************************************************************************)
NodeBuilder_new == [point |-> None, connected_points |-> None]

NodeBuilder_point(builder, point) == [builder EXCEPT !.point = Some(point)]

node_is_connected_to(builder, point) ==
    IF ~ builder.connected_points.some
    THEN FALSE
    ELSE \E i \in 1..Len(builder.connected_points.value) :
             is(builder.connected_points.value[i], point)

\* mutant: the point is pushed without looking for a connection to it
NodeBuilder_connected_point_unchecked(builder, point) ==
    IF builder.connected_points.some
    THEN [builder EXCEPT
             !.connected_points = Some(Append(builder.connected_points.value, point))]
    ELSE [builder EXCEPT !.connected_points = Some(<<point>>)]

NodeBuilder_connected_point(builder, point) ==
    IF node_is_connected_to(builder, point)
    THEN builder
    ELSE IF builder.connected_points.some
         THEN [builder EXCEPT
                  !.connected_points = Some(Append(builder.connected_points.value, point))]
         ELSE [builder EXCEPT !.connected_points = Some(<<point>>)]

RECURSIVE NodeBuilder_connected_points(_, _)
NodeBuilder_connected_points(builder, connected_points) ==
    IF connected_points = <<>>
    THEN builder
    ELSE NodeBuilder_connected_points(
             NodeBuilder_connected_point(builder, Head(connected_points)),
             Tail(connected_points))

to_connection(connected_point) == Connection(connected_point)

\* mutant: build() without the self-connection check
NodeBuilder_build_unchecked(builder) ==
    IF ~ builder.point.some
    THEN Err(MissingPointMessage)
    ELSE LET connected == IF builder.connected_points.some
                          THEN builder.connected_points.value
                          ELSE <<>>
         IN  Ok(Node(builder.point.value,
                     [i \in 1..Len(connected) |-> to_connection(connected[i])]))

NodeBuilder_build(builder) ==
    IF ~ builder.point.some
    THEN Err(MissingPointMessage)
    ELSE IF node_is_connected_to(builder, builder.point.value)
         THEN Err(SelfConnectionMessage)
         ELSE LET connected == IF builder.connected_points.some
                               THEN builder.connected_points.value
                               ELSE <<>>
              IN  Ok(Node(builder.point.value,
                          [i \in 1..Len(connected) |-> to_connection(connected[i])]))

(***************************************************************************)
(* The three programs: one find_paths call on a Net; one NodeBuilder       *)
(* driven to build(); one PathBuilder driven to build().                   *)
(***************************************************************************)
NetIdle ==
    /\ net = Net(<<>>)
    /\ from = [id |-> "A"]
    /\ to = None
    /\ result = NotCalled

NodeIdle ==
    /\ node_builder = NodeBuilder_new
    /\ node_added = <<>>
    /\ node_point = None
    /\ node_last = "new"
    /\ node_result = NotCalled

PathIdle ==
    /\ path_builder = PathBuilder_new
    /\ path_supplied = <<>>
    /\ path_last = "new"
    /\ path_result = NotCalled

\* builder.point(&point)
NodePoint(point) ==
    /\ node_result = NotCalled
    /\ UNCHANGED <<net_vars, path_vars>>
    /\ node_builder' = NodeBuilder_point(node_builder, point)
    /\ node_point' = Some(point)
    /\ node_last' = "point"
    /\ UNCHANGED <<node_added, node_result>>

\* builder.connected_point(&point)
NodeConnectedPoint(point) ==
    /\ node_result = NotCalled
    /\ UNCHANGED <<net_vars, path_vars>>
    /\ Len(node_added) + 1 <= MaxAdded
    /\ node_builder' = NodeBuilder_connected_point(node_builder, point)
    /\ node_added' = Append(node_added, point)
    /\ node_last' = "connected_point"
    /\ UNCHANGED <<node_point, node_result>>

\* builder.connected_points(&list)
NodeConnectedPoints(list) ==
    /\ node_result = NotCalled
    /\ UNCHANGED <<net_vars, path_vars>>
    /\ Len(node_added) + Len(list) <= MaxAdded
    /\ node_builder' = NodeBuilder_connected_points(node_builder, list)
    /\ node_added' = node_added \o list
    /\ node_last' = "connected_points"
    /\ UNCHANGED <<node_point, node_result>>

\* builder.build()
NodeBuild ==
    /\ node_result = NotCalled
    /\ UNCHANGED <<net_vars, path_vars>>
    /\ node_result' = NodeBuilder_build(node_builder)
    /\ UNCHANGED <<node_builder, node_added, node_point, node_last>>

\* builder.point(&point)
PathPoint(point) ==
    /\ path_result = NotCalled
    /\ UNCHANGED <<net_vars, node_vars>>
    /\ Len(path_supplied) + 1 <= MaxSupplied
    /\ path_builder' = PathBuilder_point(path_builder, point)
    /\ path_supplied' = Append(path_supplied, point)
    /\ path_last' = "point"
    /\ UNCHANGED path_result

\* builder.points(list)
PathPoints(list) ==
    /\ path_result = NotCalled
    /\ UNCHANGED <<net_vars, node_vars>>
    /\ Len(path_supplied) + Len(list) <= MaxSupplied
    /\ path_builder' = PathBuilder_points(path_builder, list)
    /\ path_supplied' = path_supplied \o list
    /\ path_last' = "points"
    /\ UNCHANGED path_result

\* builder.build()
PathBuild ==
    /\ path_result = NotCalled
    /\ UNCHANGED <<net_vars, node_vars>>
    /\ path_result' = PathBuilder_build(path_builder)
    /\ UNCHANGED <<path_builder, path_supplied, path_last>>

Init == NetInit /\ NodeIdle /\ PathIdle
Next == \E to_point \in Points : FindPaths(to_point)
Spec == Init /\ [][Next]_vars

NodeInit == NetIdle /\ NodeIdle /\ PathIdle
NodeNext ==
    \/ \E point \in Points : NodePoint(point)
    \/ \E point \in Points : NodeConnectedPoint(point)
    \/ \E list \in SeqsUpTo(Points, MaxList) : NodeConnectedPoints(list)
    \/ NodeBuild
NodeSpec == NodeInit /\ [][NodeNext]_vars

PathInit == NetIdle /\ NodeIdle /\ PathIdle
PathNext ==
    \/ \E point \in Points : PathPoint(point)
    \/ \E list \in SeqsUpTo(Points, MaxList) : PathPoints(list)
    \/ PathBuild
PathSpec == PathInit /\ [][PathNext]_vars

(***************************************************************************)
(* Vocabulary of the properties                                            *)
(***************************************************************************)
Called == result # NotCalled

HasNode(n, point) == \E i \in 1..Len(n.nodes) : is(n.nodes[i].point, point)

\* some Node of the Net whose point is p holds a connection p -> q
HoldsConnection(n, p, q) ==
    \E i \in 1..Len(n.nodes) :
        /\ is(n.nodes[i].point, p)
        /\ \E c \in 1..Len(n.nodes[i].connections) : is(n.nodes[i].connections[c].to, q)

\* the paths of an Ok result, as sequences of points
FoundPaths ==
    IF Called /\ result.outcome.kind = "Ok"
    THEN [k \in 1..Len(result.outcome.value) |-> result.outcome.value[k].points]
    ELSE <<>>

\* one Node per identifier, no duplicate connection, every target has a Node
Consistent(n) ==
    /\ \A i, j \in 1..Len(n.nodes) : i # j => ~ is(n.nodes[i].point, n.nodes[j].point)
    /\ \A i \in 1..Len(n.nodes) :
        /\ \A c, d \in 1..Len(n.nodes[i].connections) :
               c # d => ~ is(n.nodes[i].connections[c].to, n.nodes[i].connections[d].to)
        /\ \A c \in 1..Len(n.nodes[i].connections) : HasNode(n, n.nodes[i].connections[c].to)

\* the sequences of points without a repeated identifier
SimpleSeqs ==
    UNION { { s \in [1..k -> Points] : \A i, j \in 1..k : i # j => ~ is(s[i], s[j]) } :
              k \in 1..Cardinality(Points) }

\* s is a directed path from f to t along the Nodes' connections
IsPath(n, f, t, s) ==
    /\ is(s[1], f)
    /\ is(s[Len(s)], t)
    /\ \A i \in 1..(Len(s) - 1) : HoldsConnection(n, s[i], s[i + 1])

\* every simple directed path from f to t along the Nodes' connections
SimplePaths(n, f, t) == { s \in SimpleSeqs : IsPath(n, f, t, s) }

\* position of the connection to q in the connections of the Node that the
\* search uses for p (the first Node of the Net whose point is p)
ConnectionIndex(n, p, q) ==
    LET node == find_node_or_throws(n, p).value
    IN  CHOOSE c \in 1..Len(node.connections) : is(node.connections[c].to, q)

(***************************************************************************)
(* Net::find_paths                                                         *)
(***************************************************************************)
\* C1: every path of an Ok result of find_paths(from, to), from and to both
\* having a Node, starts with from, ends with to, holds no identifier twice,
\* and each consecutive pair (p, q) of it is a connection held by a Node of
\* the Net whose point is p.
C1_PathsAreSimpleAndConnected ==
    (Called /\ HasNode(net, from) /\ HasNode(net, to) /\ result.outcome.kind = "Ok") =>
        \A k \in 1..Len(FoundPaths) :
            LET s == FoundPaths[k]
            IN  /\ Len(s) >= 1
                /\ is(s[1], from)
                /\ is(s[Len(s)], to)
                /\ \A i, j \in 1..Len(s) : i # j => ~ is(s[i], s[j])
                /\ \A i \in 1..(Len(s) - 1) : HoldsConnection(net, s[i], s[i + 1])

\* an Ok result with a path of three points whose middle Node is connected
\* back to from: the search had to refuse the way back
C1_Witness ==
    /\ Called
    /\ result.outcome.kind = "Ok"
    /\ \E k \in 1..Len(FoundPaths) :
        /\ Len(FoundPaths[k]) = 3
        /\ HoldsConnection(net, FoundPaths[k][2], from)

\* C2: on a Net with one Node per identifier, no duplicate connection and a
\* Node for every connection target, find_paths(from, to) with from and to in
\* the Net returns every simple directed path from from to to exactly once,
\* and nothing else; a dead-end branch takes no path away from its siblings.
C2_AllSimplePathsExactlyOnce ==
    (Called /\ Consistent(net) /\ HasNode(net, from) /\ HasNode(net, to)) =>
        LET found == FoundPaths
            simple == SimplePaths(net, from, to)
        IN  /\ \A s \in simple : Cardinality({ k \in 1..Len(found) : found[k] = s }) = 1
            /\ \A k \in 1..Len(found) : found[k] \in simple

\* a consistent Net where the first connection of from's Node leads to a Node
\* that has a way on (to a point other than from and to) and still is a dead
\* end: no path to `to` goes through it; a later connection yields the result
C2_Witness ==
    /\ Called
    /\ Consistent(net)
    /\ HasNode(net, from)
    /\ result.outcome.kind = "Ok"
    /\ LET node_from == find_node_or_throws(net, from).value
       IN  /\ Len(node_from.connections) >= 2
           /\ ~ is(node_from.connections[1].to, to)
           /\ \E x \in Points :
                  /\ ~ is(x, from)
                  /\ ~ is(x, to)
                  /\ HoldsConnection(net, node_from.connections[1].to, x)
           /\ \A k \in 1..Len(FoundPaths) :
                  /\ Len(FoundPaths[k]) >= 2
                  /\ ~ is(FoundPaths[k][2], node_from.connections[1].to)

\* C3 (as claimed): find_paths(from, to) fails with PointNotFound carrying
\* to's identifier whenever from has a Node and to has none.
C3_ToNotFound ==
    (Called /\ HasNode(net, from) /\ ~ HasNode(net, to)) =>
        result.outcome = Err(PointNotFound(to_string(id(to))))

\* C4: find_paths(from, to) fails with PointNotFound carrying from's
\* identifier whenever from has no Node, whether or not to has one, before
\* any search step is made (and so without a panic).
C4_FromNotFound ==
    (Called /\ ~ HasNode(net, from)) =>
        /\ result.outcome = Err(PointNotFound(to_string(id(from))))
        /\ result.calls = 0

\* from has no Node, to has none either, and a Node of the Net is connected
\* to a point without a Node
C4_Witness ==
    /\ Called
    /\ ~ HasNode(net, from)
    /\ ~ HasNode(net, to)
    /\ ~ is(from, to)
    /\ \E p \in Points : HasNode(net, p) /\ HoldsConnection(net, p, from)

\* C5: on a consistent Net with from and to both in it, find_paths(from, to)
\* fails with NoPathFound exactly when no simple path connects from to to;
\* otherwise it returns Ok with at least one path (never an empty list, never
\* the NoPathFound of one of its branches).
C5_NoPathFoundIffNoSimplePath ==
    (Called /\ Consistent(net) /\ HasNode(net, from) /\ HasNode(net, to)) =>
        IF \E s \in SimpleSeqs : IsPath(net, from, to, s)
        THEN /\ result.outcome.kind = "Ok"
             /\ Len(result.outcome.value) >= 1
        ELSE result.outcome = Err(NoPathFound)

\* NoPathFound as the aggregate of a search that went three levels deep and
\* absorbed the NoPathFound of every branch
C5_Witness ==
    /\ Called
    /\ Consistent(net)
    /\ HasNode(net, from)
    /\ HasNode(net, to)
    /\ result.outcome = Err(NoPathFound)
    /\ result.depth >= 3
    /\ result.calls >= 4

\* C10: the paths of an Ok result come in depth-first order of the Nodes'
\* connection lists: of two paths, the earlier one leaves their common prefix
\* through an earlier connection of the Node at the end of that prefix.
C10_DepthFirstConnectionOrder ==
    \A a, b \in 1..Len(FoundPaths) :
        a < b =>
            LET s == FoundPaths[a]
                t == FoundPaths[b]
            IN  \E k \in 2..Max(Len(s), Len(t)) :
                    /\ k <= Len(s)
                    /\ k <= Len(t)
                    /\ \A m \in 1..(k - 1) : s[m] = t[m]
                    /\ s[k] # t[k]
                    /\ ConnectionIndex(net, s[k - 1], s[k]) < ConnectionIndex(net, t[k - 1], t[k])

\* two paths found, the longer one first: the order is neither by length nor
\* anything but the connection order
C10_Witness ==
    /\ Len(FoundPaths) >= 2
    /\ Len(FoundPaths[1]) > Len(FoundPaths[2])

\* the Node the search uses for p (the first one of the Net whose point is p)
\* holds a connection to q
SearchedConnection(n, p, q) ==
    \E i \in 1..Len(n.nodes) :
        /\ is(n.nodes[i].point, p)
        /\ \A j \in 1..(i - 1) : ~ is(n.nodes[j].point, p)
        /\ \E c \in 1..Len(n.nodes[i].connections) : is(n.nodes[i].connections[c].to, q)

\* the search from f to t is offered a candidate that has no Node: some
\* simple walk from f that stays clear of t, over points that have Nodes,
\* ends at a Node connected to a point without a Node
DanglingOffered(n, f, t) ==
    \E s \in SimpleSeqs :
        /\ is(s[1], f)
        /\ \A i \in 1..Len(s) : HasNode(n, s[i]) /\ ~ is(s[i], t)
        /\ \A i \in 1..(Len(s) - 1) : SearchedConnection(n, s[i], s[i + 1])
        /\ \E q \in Points : ~ HasNode(n, q) /\ SearchedConnection(n, s[Len(s)], q)

\* C11: find_paths(from, to), from having a Node, panics exactly when the
\* search is offered a candidate that has no Node, whatever the other branches
\* found, and the panic carries PointNotFound of a point without a Node; a
\* dangling connection that is never offered causes no panic.
C11_PanicIffDanglingOffered ==
    (Called /\ HasNode(net, from)) =>
        IF DanglingOffered(net, from, to)
        THEN /\ result.outcome.kind = "Panic"
             /\ result.outcome.err.error = "PointNotFound"
             /\ \A i \in 1..Len(net.nodes) :
                    to_string(id(net.nodes[i].point)) # result.outcome.err.point_id
        ELSE /\ result.outcome.kind \in {"Ok", "Err"}
             /\ result.outcome.kind = "Err" => result.outcome = Err(NoPathFound)

\* a panic after the first branch had found a complete path: from's first
\* connection is to `to`, a later one names a point without a Node
C11_Witness ==
    /\ Called
    /\ HasNode(net, from)
    /\ HasNode(net, to)
    /\ result.outcome.kind = "Panic"
    /\ LET node_from == find_node_or_throws(net, from).value
       IN  /\ Len(node_from.connections) >= 2
           /\ is(node_from.connections[1].to, to)

\* the distinct point identifiers that have a Node in the Net
NodeIds(n) == { id(n.nodes[i].point) : i \in 1..Len(n.nodes) }

\* C12: find_paths(from, to) ends on every Net, with a result, an error or a
\* panic, cycles and several Nodes per identifier included: the recursion is
\* never deeper than the number of distinct identifiers that have a Node,
\* and no path found is longer than the recursion was deep.
C12_DepthBoundedByIdentifiers ==
    Called =>
        /\ result.outcome.kind \in {"Ok", "Err", "Panic"}
        /\ result.depth <= Cardinality(NodeIds(net))
        /\ result.calls >= result.depth
        /\ \A k \in 1..Len(FoundPaths) : Len(FoundPaths[k]) <= result.depth

\* a Net with two Nodes for one identifier and a cycle back to from, searched
\* as deep as it has distinct identifiers
C12_Witness ==
    /\ Called
    /\ Len(net.nodes) > Cardinality(NodeIds(net))
    /\ Cardinality(NodeIds(net)) >= 2
    /\ result.depth = Cardinality(NodeIds(net))
    /\ \E p \in Points : ~ is(p, from) /\ SearchedConnection(net, p, from)
    /\ \E p \in Points : ~ is(p, from) /\ SearchedConnection(net, from, p)

\* C13: when from and to are the same point and it has a Node, find_paths
\* returns Ok with exactly one path, the single point from, after one search
\* step: no connection is followed and no candidate is looked up, whatever
\* the connections of the Node are.
C13_SamePointIsTheOnlyPath ==
    (Called /\ is(from, to) /\ HasNode(net, from)) =>
        result = Searched(Ok(<<Path(<<from>>)>>), 1, 1)

\* from = to, and from's Node is connected to a point that has no Node
C13_Witness ==
    /\ Called
    /\ is(from, to)
    /\ HasNode(net, from)
    /\ result.outcome.kind = "Ok"
    /\ \E q \in Points : ~ HasNode(net, q) /\ SearchedConnection(net, from, q)

(***************************************************************************)
(* NodeBuilder                                                             *)
(***************************************************************************)
NodeBuilt == node_result.kind # "NotCalled"

\* C6: whatever the order of the point / connected_point / connected_points
\* calls, build() fails with the self-connection error whenever a connection
\* target handed to the builder has the identifier of the point last set; so
\* no Node that build() returns is connected to its own point.
C6_NoSelfConnection ==
    NodeBuilt =>
        /\ ( /\ node_point.some
             /\ \E i \in 1..Len(node_added) : is(node_added[i], node_point.value) )
           => node_result = Err(SelfConnectionMessage)
        /\ node_result.kind = "Ok" =>
               \A c \in 1..Len(node_result.value.connections) :
                   ~ is(node_result.value.connections[c].to, node_result.value.point)

\* build() refused a builder whose point was set after its connections
C6_Witness ==
    /\ node_result = Err(SelfConnectionMessage)
    /\ node_last = "point"
    /\ Len(node_added) >= 2

\* targets: one entry per distinct identifier of added, in the order of each
\* identifier's first occurrence in added
FirstOccurrences(targets, added) ==
    /\ \A i, j \in 1..Len(targets) : i # j => ~ is(targets[i], targets[j])
    /\ { id(targets[i]) : i \in 1..Len(targets) } = { id(added[i]) : i \in 1..Len(added) }
    /\ \A i, j \in 1..Len(targets) :
           i < j =>
               \E a \in 1..Len(added) :
                   /\ is(added[a], targets[i])
                   /\ \A b \in 1..a : ~ is(added[b], targets[j])

\* C7: the builder holds, and the Node returned by build() gets, exactly one
\* connection per distinct target identifier ever added, in the order of each
\* identifier's first insertion.
C7_ConnectionsDeduplicatedInFirstSeenOrder ==
    /\ FirstOccurrences(
           IF node_builder.connected_points.some
           THEN node_builder.connected_points.value
           ELSE <<>>,
           node_added)
    /\ node_result.kind = "Ok" =>
           FirstOccurrences(
               [c \in 1..Len(node_result.value.connections) |->
                    node_result.value.connections[c].to],
               node_added)

\* a Node built after four targets were added, two of them repeats, the last
\* ones as a list
C7_Witness ==
    /\ node_result.kind = "Ok"
    /\ Len(node_added) = 4
    /\ Len(node_result.value.connections) = 2
    /\ node_last = "connected_points"
    /\ node_added[1] # node_added[2]

(***************************************************************************)
(* PathBuilder                                                             *)
(***************************************************************************)
PathBuilt == path_result.kind # "NotCalled"

\* C8 (as claimed): the Path returned by build() is the concatenation, in
\* call order, of every point handed to point() and points().
C8_PathIsEverythingSupplied ==
    path_result.kind = "Ok" => path_result.value.points = path_supplied

\* C9 (as claimed): build() fails with the empty-path error whenever the
\* builder holds zero points, so every Path it returns has at least one point.
C9_EmptyBuilderFails ==
    PathBuilt =>
        /\ ( \/ ~ path_builder.points.some
             \/ path_builder.points.value = <<>> )
           => path_result = Err(EmptyPathMessage)
        /\ path_result.kind = "Ok" => Len(path_result.value.points) >= 1

====
